---- MODULE Spec2Model ----
(***************************************************************************)
(* ApiCallQueue (kingpin/actors/aws/api_call_queue.py): a FIFO of pending  *)
(* api calls drained by one dispatcher coroutine per queue instance, a     *)
(* worker pool shared by all instances, and an exponential backoff delay.  *)
(*                                                                         *)
(* Time values are counted in ticks of 1/64 s, so that every value the     *)
(* delay arithmetic produces (down to 30/128 s) is an exact integer.       *)
(* A Python number is [n |-> ticks, int |-> is it a Python int].           *)
(*                                                                         *)
(* Also two helpers of kingpin/utils.py, each under a specification of its *)
(* own: the retry decorator and populate_with_env.                         *)
(***************************************************************************)
EXTENDS Integers, Sequences, FiniteSets, TLC

VARIABLES
    trueDivision,   \* "/" on two ints: exact (Python 3) or floor (Python 2, which utils.py needs)
    queue,          \* queue[q]: self._queue, the pending (result_queue, api_function, args)
    pc,             \* pc[q]: where the _process_queue coroutine of q is suspended
    cur,            \* cur[q]: the entry _process_queue dequeued last
    callRes,        \* callRes[q]: what self._call(...) returned or raised
    delay,          \* delay[q]: self.delay
    fut,            \* fut[q]: the future of self._thread(...) that _call awaits
    poolQ,          \* EXECUTOR: tasks submitted and waiting for a worker
    running,        \* EXECUTOR: tasks a worker is executing
    callSt,         \* callSt[c]: where caller c is in call()
    chan,           \* chan[c]: result_queue of call c (maxsize 1)
    received,       \* received[c]: what call() returned or raised to caller c
    enq,            \* history: enq[q], the calls in the order they were enqueued
    started,        \* history: started[q], the calls in the order of their first execution
    dlv,            \* history: dlv[q], the calls in the order their result was put
    tries,          \* history: tries[c], invocations of the callable of call c
    nThrottled,     \* history: nThrottled[c], attempts of c the remote API throttled
    nPut,           \* history: nPut[c], number of puts on chan[c]
    lastOut,        \* history: lastOut[c], the outcome of the latest attempt of c
    usedArgs,       \* history: usedArgs[c], the arguments c's callable was invoked with
    ops,            \* history: ops[q], what _call did so far for the entry it handles
    sleepFor,       \* sleepFor[q]: the seconds of the gen.sleep() q is suspended in
    pair,           \* two runs of _call side by side (SpecPair): pair.a, pair.b
    bk,             \* an ApiCallQueue whose delay methods are called directly (SpecDelay)
    rt,             \* utils.retry: one call of a decorated operation (SpecRetry)
    env             \* utils.populate_with_env: one call (SpecEnv)

vars == <<rt, env, bk, trueDivision, pair, queue, pc, cur, callRes, delay, fut, poolQ, running,
          callSt, chan, received, enq, started, dlv, tries, nThrottled, nPut,
          lastOut, usedArgs, ops, sleepFor>>

(* Bounds of the model *)
NumQueues == 2
NumCalls == 2
MaxTries == 2
MaxRun == 10
MaxDone == 1
MaxRetries == 3
MaxPieces == 5

Queues == 1..NumQueues
Calls == 1..NumCalls

----------------------------------------------------------------------------
(* Python numbers and the arithmetic decrease_delay / increase_delay use *)

PyInt(s) == [n |-> s * 64, int |-> TRUE]
PyFloat(ticks) == [n |-> ticks, int |-> FALSE]

\* self.delay_min = 0.25
delay_min == PyFloat(16)
\* self.delay_max = 30
delay_max == PyInt(30)
\* self.delay = 0
delay_init == PyInt(0)
\* ThreadPoolExecutor(10)
EXECUTOR_max_workers == 10

\* x / 2: floor division when x is an int and the interpreter is Python 2
PyHalf(x) ==
    IF x.int /\ ~trueDivision
    THEN [n |-> ((x.n \div 64) \div 2) * 64, int |-> TRUE]
    ELSE [n |-> x.n \div 2, int |-> FALSE]

\* x * 2 keeps the type of x
PyDouble(x) == [n |-> x.n * 2, int |-> x.int]

\* max(a, b) and min(a, b) return the first argument unless the second is
\* strictly greater (smaller)
PyMax(a, b) == IF b.n > a.n THEN b ELSE a
PyMin(a, b) == IF b.n < a.n THEN b ELSE a

\* faulty variant: no early return when the delay is 0
decrease_delay_noguard(d) ==
    IF d.n = delay_min.n THEN PyInt(0)
    ELSE PyMax(PyHalf(d), delay_min)

\* faulty variant: a delay of delay_min is not set to 0
decrease_delay_nofloor(d) ==
    IF d.n = 0 THEN d
    ELSE PyMax(PyHalf(d), delay_min)

decrease_delay(d) ==
    IF d.n = 0 THEN d
    ELSE IF d.n = delay_min.n THEN PyInt(0)
    ELSE PyMax(PyHalf(d), delay_min)

\* faulty variant: the doubled delay is not capped
increase_delay_nocap(d) ==
    IF d.n = 0 THEN delay_min
    ELSE PyDouble(d)

\* faulty variant: the cap is applied before the doubling
increase_delay_capfirst(d) ==
    IF d.n = 0 THEN delay_min
    ELSE PyDouble(PyMin(d, delay_max))

increase_delay(d) ==
    IF d.n = 0 THEN delay_min
    ELSE PyMin(PyDouble(d), delay_max)

----------------------------------------------------------------------------
(* Objects: values and exceptions.  code = <<>> is error_code None.        *)
(* by and try say which callable produced the object, in which of its      *)
(* invocations: two objects are the same object iff they are equal.        *)

Obj(cls, status, reason, code, message) ==
    [cls |-> cls, status |-> status, reason |-> reason, code |-> code,
     message |-> message, by |-> 0, try |-> 0]

NoObj == Obj("NoneType", 0, "", <<>>, "")

BotoServerError(status, reason, code, message) ==
    Obj("BotoServerError", status, reason, code, message)
\* a botocore ClientError; code is e.response['Error']['Code']
ClientError(code, message) == Obj("ClientError", 0, "", <<code>>, message)

\* What one invocation of an api function can do: return an object or raise one.
Returns(o) == [raised |-> FALSE, obj |-> o]
Raises(o) == [raised |-> TRUE, obj |-> o]

Shapes ==
    { Returns(Obj("str", 0, "", <<>>, "ok")),
      Returns(Obj("ValueError", 0, "", <<>>, "returned")),
      Raises(BotoServerError(400, "Bad Request", <<"Throttling">>, "slow down")),
      Raises(BotoServerError(400, "Bad Request", <<"Rate exceeded">>, "slow down")),
      Raises(BotoServerError(503, "Unavailable", <<"reached max retries">>, "")),
      Raises(BotoServerError(403, "Forbidden", <<"Throttling">>, "slow down")),
      Raises(BotoServerError(400, "Bad Request", <<>>, "")),
      Raises(BotoServerError(400, "Bad Request", <<"">>, "")),
      Raises(BotoServerError(400, "Conflict", <<>>, "")),
      Raises(BotoServerError(403, "Forbidden", <<"AccessDenied">>, "denied")),
      Raises(BotoServerError(403, "Forbidden", <<>>, "denied")),
      Raises(BotoServerError(500, "Error", <<"InternalFailure">>, "oops")),
      Raises(ClientError("Throttling", "slow down")),
      Raises(ClientError("AccessDenied", "denied")),
      Raises(Obj("ValueError", 0, "", <<>>, "bad")),
      Raises(Obj("KeyboardInterrupt", 0, "", <<>>, "")) }

\* The shapes the callables of concurrent callers end with: a value, a
\* throttling error, an error _call translates, an error of neither library.
CoreShapes ==
    { Returns(Obj("str", 0, "", <<>>, "ok")),
      Raises(BotoServerError(400, "Bad Request", <<"Throttling">>, "slow down")),
      Raises(BotoServerError(403, "Forbidden", <<"AccessDenied">>, "denied")),
      Raises(Obj("ValueError", 0, "", <<>>, "bad")) }

\* The remote API signals throttling: the error codes boto2 and boto3 carry
\* when a rate limit is reached (lines 34-41, 102)
Throttling(s) ==
    /\ s.raised
    /\ \/ /\ s.obj.cls = "BotoServerError"
          /\ s.obj.code \in {<<"Throttling">>, <<"Rate exceeded">>, <<"reached max retries">>}
       \/ /\ s.obj.cls = "ClientError"
          /\ s.obj.code = <<"Throttling">>

\* isinstance(o, Exception)
IsException(o) ==
    o.cls \in {"BotoServerError", "ClientError", "ValueError", "InvalidCredentials"}

\* '%s' % code
PyStr(code) == IF code = <<>> THEN "None" ELSE code[1]

\* exceptions.InvalidCredentials(msg), built while handling e
InvalidCredentials(msg, e) ==
    [Obj("InvalidCredentials", 0, "", <<>>, msg) EXCEPT !.by = e.by, !.try = e.try]

\* faulty variant: one of the throttling messages is missing
boto2_throttle_strings_short == {"Throttling", "reached max retries"}
\* self.boto2_throttle_strings
boto2_throttle_strings == {"Throttling", "Rate exceeded", "reached max retries"}

----------------------------------------------------------------------------
(* One pass through the try/except of _call, once the future of _thread    *)
(* is resolved with out, when self.delay is d: the delay methods invoked,  *)
(* the new delay, whether the loop continues after gen.sleep(self.delay),  *)
(* and what _call returns or raises otherwise.                             *)

Step(did, d, again, sleep, raised, obj) ==
    [ops |-> did, delay |-> d, again |-> again, sleep |-> sleep, raised |-> raised,
     obj |-> obj]

\* faulty variant: a 403 is raised like any other error
call_boto2_no403(d, e) ==
    IF e.code # <<>> /\ e.code[1] \in boto2_throttle_strings
    THEN Step(<<"increase_delay">>, increase_delay(d), TRUE, increase_delay(d), FALSE, NoObj)
    ELSE IF e.status = 400 /\ e.reason = "Bad Request" /\ e.code = <<>>
    THEN Step(<<"decrease_delay">>, decrease_delay(d), FALSE, PyInt(0), TRUE,
              InvalidCredentials("Access credentials have expired", e))
    ELSE Step(<<"decrease_delay">>, decrease_delay(d), FALSE, PyInt(0), TRUE, e)

\* faulty variant: "not e.error_code" in place of "e.error_code is None"
call_boto2_falsy(d, e) ==
    IF e.code # <<>> /\ e.code[1] \in boto2_throttle_strings
    THEN Step(<<"increase_delay">>, increase_delay(d), TRUE, increase_delay(d), FALSE, NoObj)
    ELSE IF e.status = 400 /\ e.reason = "Bad Request" /\ e.code \in {<<>>, <<"">>}
    THEN Step(<<"decrease_delay">>, decrease_delay(d), FALSE, PyInt(0), TRUE,
              InvalidCredentials("Access credentials have expired", e))
    ELSE IF e.status = 403
    THEN Step(<<"decrease_delay">>, decrease_delay(d), FALSE, PyInt(0), TRUE,
              InvalidCredentials(PyStr(e.code) \o ": " \o e.message, e))
    ELSE Step(<<"decrease_delay">>, decrease_delay(d), FALSE, PyInt(0), TRUE, e)

\* faulty variant: the translated 403 is raised before decrease_delay()
call_boto2_nodecrease(d, e) ==
    IF e.code # <<>> /\ e.code[1] \in boto2_throttle_strings
    THEN Step(<<"increase_delay">>, increase_delay(d), TRUE, increase_delay(d), FALSE, NoObj)
    ELSE IF e.status = 400 /\ e.reason = "Bad Request" /\ e.code = <<>>
    THEN Step(<<"decrease_delay">>, decrease_delay(d), FALSE, PyInt(0), TRUE,
              InvalidCredentials("Access credentials have expired", e))
    ELSE IF e.status = 403
    THEN Step(<<>>, d, FALSE, PyInt(0), TRUE,
              InvalidCredentials(PyStr(e.code) \o ": " \o e.message, e))
    ELSE Step(<<"decrease_delay">>, decrease_delay(d), FALSE, PyInt(0), TRUE, e)

\* faulty variant: the status 403 is tested before the throttling strings
call_boto2_403first(d, e) ==
    IF e.status = 403
    THEN Step(<<"decrease_delay">>, decrease_delay(d), FALSE, PyInt(0), TRUE,
              InvalidCredentials(PyStr(e.code) \o ": " \o e.message, e))
    ELSE IF e.code # <<>> /\ e.code[1] \in boto2_throttle_strings
    THEN Step(<<"increase_delay">>, increase_delay(d), TRUE, increase_delay(d), FALSE, NoObj)
    ELSE IF e.status = 400 /\ e.reason = "Bad Request" /\ e.code = <<>>
    THEN Step(<<"decrease_delay">>, decrease_delay(d), FALSE, PyInt(0), TRUE,
              InvalidCredentials("Access credentials have expired", e))
    ELSE Step(<<"decrease_delay">>, decrease_delay(d), FALSE, PyInt(0), TRUE, e)

\* except boto_exception.BotoServerError as e
call_boto2(d, e) ==
    IF e.code # <<>> /\ e.code[1] \in boto2_throttle_strings
    THEN Step(<<"increase_delay">>, increase_delay(d), TRUE, increase_delay(d), FALSE, NoObj)
    ELSE IF e.status = 400 /\ e.reason = "Bad Request" /\ e.code = <<>>
    THEN Step(<<"decrease_delay">>, decrease_delay(d), FALSE, PyInt(0), TRUE,
              InvalidCredentials("Access credentials have expired", e))
    ELSE IF e.status = 403
    THEN Step(<<"decrease_delay">>, decrease_delay(d), FALSE, PyInt(0), TRUE,
              InvalidCredentials(PyStr(e.code) \o ": " \o e.message, e))
    ELSE Step(<<"decrease_delay">>, decrease_delay(d), FALSE, PyInt(0), TRUE, e)

\* faulty variant: a throttled boto3 call is retried without raising the delay
call_boto3_nobackoff(d, e) ==
    IF e.code[1] = "Throttling"
    THEN Step(<<>>, d, TRUE, d, FALSE, NoObj)
    ELSE Step(<<"decrease_delay">>, decrease_delay(d), FALSE, PyInt(0), TRUE, e)

\* faulty variant: a ClientError that is not throttling is wrapped
call_boto3_wrap(d, e) ==
    IF e.code[1] = "Throttling"
    THEN Step(<<"increase_delay">>, increase_delay(d), TRUE, increase_delay(d), FALSE, NoObj)
    ELSE Step(<<"decrease_delay">>, decrease_delay(d), FALSE, PyInt(0), TRUE,
              InvalidCredentials(PyStr(e.code) \o ": " \o e.message, e))

\* faulty variant: the sleep is made with the delay as it was before increase_delay()
call_boto3_sleepfirst(d, e) ==
    IF e.code[1] = "Throttling"
    THEN Step(<<"increase_delay">>, increase_delay(d), TRUE, d, FALSE, NoObj)
    ELSE Step(<<"decrease_delay">>, decrease_delay(d), FALSE, PyInt(0), TRUE, e)

\* except botocore_exceptions.ClientError as e
call_boto3(d, e) ==
    IF e.code[1] = "Throttling"
    THEN Step(<<"increase_delay">>, increase_delay(d), TRUE, increase_delay(d), FALSE, NoObj)
    ELSE Step(<<"decrease_delay">>, decrease_delay(d), FALSE, PyInt(0), TRUE, e)

\* An exception of neither client library is caught by no except clause of
\* _call: it leaves _call at once, and self.delay is not touched.
call_attempt(d, out) ==
    IF ~out.raised THEN Step(<<"decrease_delay">>, decrease_delay(d), FALSE, PyInt(0), FALSE, out.obj)
    ELSE IF out.obj.cls = "BotoServerError" THEN call_boto2(d, out.obj)
    ELSE IF out.obj.cls = "ClientError" THEN call_boto3(d, out.obj)
    ELSE Step(<<>>, d, FALSE, PyInt(0), TRUE, out.obj)

----------------------------------------------------------------------------
(* State *)

\* the tuple (result_queue, api_function, args, kwargs) call() enqueues
Entry(c) == [ch |-> c, fn |-> c, args |-> <<"args", c>>]
NoEntry == [ch |-> 0, fn |-> 0, args |-> <<>>]

\* the work item EXECUTOR.submit(fn, self, function, *args) creates for queue q
Task(q, e) == [q |-> q, fn |-> e.fn, args |-> e.args]

NoOut == [raised |-> FALSE, obj |-> NoObj]
NoFut == [done |-> FALSE, raised |-> FALSE, obj |-> NoObj]

\* a run of _process_queue/_call on its own: the delay, the gen.sleep()s and
\* the invocations of the current call, and how _call ended
Run(d) == [delay |-> d, sleeps |-> <<>>, calls |-> 0, done |-> FALSE,
           raised |-> FALSE, obj |-> NoObj]

\* the delay of an ApiCallQueue, the delay method called last (op), the delay
\* before the first of the calls of op in a row (from) and the delay after each
\* of them (run); of the calls in a row of the other method before these, the
\* delay they started from and their number (prev)
Backoff(d) == [delay |-> d, op |-> "", from |-> d, run |-> <<>>,
               prev |-> [from |-> d, n |-> 0]]

\* utils.py: no decorated operation and no populate_with_env call is under way
NoRetry == [excs |-> {}, retries |-> 0, i |-> 0, pc |-> "none", calls |-> 0,
            sleeps |-> 0, outs |-> <<>>, res |-> NoOut]
NoEnv == [string |-> <<>>, pieces |-> <<>>, environ |-> <<>>, pc |-> "none",
          res |-> <<>>, missed |-> {}]

\* ApiCallQueue instances right after __init__
InitQueues ==
    /\ trueDivision \in BOOLEAN
    /\ bk = Backoff(delay_init)
    /\ pair = [a |-> Run(delay_init), b |-> Run(delay_init), differ |-> 0]
    /\ queue = [q \in Queues |-> <<>>]
    /\ pc = [q \in Queues |-> "get"]
    /\ cur = [q \in Queues |-> NoEntry]
    /\ callRes = [q \in Queues |-> NoOut]
    /\ delay = [q \in Queues |-> delay_init]
    /\ fut = [q \in Queues |-> NoFut]
    /\ poolQ = <<>>
    /\ running = {}
    /\ callSt = [c \in Calls |-> "idle"]
    /\ chan = [c \in Calls |-> <<>>]
    /\ received = [c \in Calls |-> NoObj]
    /\ enq = [q \in Queues |-> <<>>]
    /\ started = [q \in Queues |-> <<>>]
    /\ dlv = [q \in Queues |-> <<>>]
    /\ tries = [c \in Calls |-> 0]
    /\ nThrottled = [c \in Calls |-> 0]
    /\ nPut = [c \in Calls |-> 0]
    /\ lastOut = [c \in Calls |-> NoOut]
    /\ usedArgs = [c \in Calls |-> {}]
    /\ ops = [q \in Queues |-> <<>>]
    /\ sleepFor = [q \in Queues |-> PyInt(0)]

Init ==
    /\ rt = NoRetry
    /\ env = NoEnv
    /\ InitQueues

----------------------------------------------------------------------------
(* tornado.queues.Queue: put appends, get takes the oldest item *)

\* faulty variant: put at the front (a stack)
queue_put_front(items, e) == <<e>> \o items
queue_put(items, e) == Append(items, e)
queue_head(items) == Head(items)
queue_rest(items) == Tail(items)

----------------------------------------------------------------------------
(* call(): lines 43-50 *)

\* faulty variant: a new submission resets the backoff of the queue
call_reset(c, q) ==
    /\ callSt[c] = "idle"
    /\ chan' = [chan EXCEPT ![c] = <<>>]
    /\ queue' = [queue EXCEPT ![q] = queue_put(@, Entry(c))]
    /\ enq' = [enq EXCEPT ![q] = Append(@, c)]
    /\ callSt' = [callSt EXCEPT ![c] = "waiting"]
    /\ delay' = [delay EXCEPT ![q] = delay_init]
    /\ UNCHANGED <<rt, env, bk, ops, sleepFor, trueDivision, pair, pc, cur, callRes, fut,
                   poolQ, running, received, started, dlv, tries, nThrottled, nPut,
                   lastOut, usedArgs>>

\* result_queue = queues.Queue(maxsize=1); yield self._queue.put(...);
\* then the caller is suspended in result_queue.get()
call(c, q) ==
    /\ callSt[c] = "idle"
    /\ chan' = [chan EXCEPT ![c] = <<>>]
    /\ queue' = [queue EXCEPT ![q] = queue_put(@, Entry(c))]
    /\ enq' = [enq EXCEPT ![q] = Append(@, c)]
    /\ callSt' = [callSt EXCEPT ![c] = "waiting"]
    /\ UNCHANGED <<rt, env, bk, ops, sleepFor, trueDivision, pair, pc, cur, callRes, delay, fut, poolQ, running,
                   received, started, dlv, tries, nThrottled, nPut, lastOut,
                   usedArgs>>

\* result = yield result_queue.get(); raise it if isinstance(result, Exception),
\* else return it
call_result(c) ==
    /\ callSt[c] = "waiting"
    /\ chan[c] # <<>>
    /\ received' = [received EXCEPT ![c] = Head(chan[c])]
    /\ chan' = [chan EXCEPT ![c] = Tail(@)]
    /\ callSt' = [callSt EXCEPT ![c] =
                      IF IsException(Head(chan[c])) THEN "raised" ELSE "returned"]
    /\ UNCHANGED <<rt, env, bk, ops, sleepFor, trueDivision, pair, queue, pc, cur, callRes, delay, fut, poolQ,
                   running, enq, started, dlv, tries, nThrottled, nPut, lastOut,
                   usedArgs>>

\* the caller makes its next call(): a new frame and a new result_queue, and
\* the history of the caller's previous call is dropped
Without(seq, c) == SelectSeq(seq, LAMBDA x : x # c)

call_again(c) ==
    /\ callSt[c] \in {"returned", "raised"}
    /\ callSt' = [callSt EXCEPT ![c] = "idle"]
    /\ received' = [received EXCEPT ![c] = NoObj]
    /\ chan' = [chan EXCEPT ![c] = <<>>]
    /\ enq' = [q \in Queues |-> Without(enq[q], c)]
    /\ started' = [q \in Queues |-> Without(started[q], c)]
    /\ dlv' = [q \in Queues |-> Without(dlv[q], c)]
    /\ tries' = [tries EXCEPT ![c] = 0]
    /\ nThrottled' = [nThrottled EXCEPT ![c] = 0]
    /\ nPut' = [nPut EXCEPT ![c] = 0]
    /\ lastOut' = [lastOut EXCEPT ![c] = NoOut]
    /\ usedArgs' = [usedArgs EXCEPT ![c] = {}]
    /\ UNCHANGED <<rt, env, bk, ops, sleepFor, trueDivision, pair, queue, pc, cur, callRes, delay, fut, poolQ, running>>

----------------------------------------------------------------------------
(* _process_queue() and _call(): lines 52-108 *)

\* faulty variant: the dispatcher takes the next entry while _call is still awaited
AtGet_eager(q) == pc[q] \in {"get", "thread"}
\* the coroutine of q is suspended in self._queue.get()
AtGet(q) == pc[q] = "get"

\* yield self._queue.get(), then self._call(...) runs to its first yield:
\* self._thread(api_function, *args, **kwargs) submits to EXECUTOR
process_queue_get(q) ==
    /\ AtGet(q)
    /\ queue[q] # <<>>
    /\ cur' = [cur EXCEPT ![q] = queue_head(queue[q])]
    /\ queue' = [queue EXCEPT ![q] = queue_rest(@)]
    /\ poolQ' = Append(poolQ, Task(q, queue_head(queue[q])))
    /\ fut' = [fut EXCEPT ![q] = NoFut]
    /\ pc' = [pc EXCEPT ![q] = "thread"]
    /\ ops' = [ops EXCEPT ![q] = <<"thread">>]
    /\ UNCHANGED <<rt, env, bk, sleepFor, trueDivision, pair, callRes, delay, running, callSt, chan,
                   received, enq, started, dlv, tries, nThrottled, nPut, lastOut,
                   usedArgs>>

\* faulty variant: the delay is an attribute of the class, shared by the instances
call_resume_shared(q) ==
    /\ pc[q] = "thread"
    /\ fut[q].done
    /\ LET r == call_attempt(delay[q], [raised |-> fut[q].raised, obj |-> fut[q].obj])
       IN /\ delay' = [x \in DOMAIN delay |-> r.delay]
          /\ IF r.again
             THEN /\ pc' = [pc EXCEPT ![q] = "retry_sleep"]
                  /\ sleepFor' = [sleepFor EXCEPT ![q] = r.sleep]
                  /\ ops' = [ops EXCEPT ![q] = @ \o r.ops \o <<"sleep">>]
                  /\ UNCHANGED callRes
             ELSE /\ pc' = [pc EXCEPT ![q] = "call_done"]
                  /\ callRes' = [callRes EXCEPT ![q] = [raised |-> r.raised, obj |-> r.obj]]
                  /\ ops' = [ops EXCEPT ![q] = @ \o r.ops]
                  /\ UNCHANGED sleepFor
    /\ fut' = [fut EXCEPT ![q] = NoFut]
    /\ UNCHANGED <<rt, env, bk, trueDivision, pair, queue, cur, poolQ, running, callSt,
                   chan, received, enq, started, dlv, tries, nThrottled, nPut, lastOut,
                   usedArgs>>

\* the future of _thread is resolved: _call resumes in its try/except
call_resume(q) ==
    /\ pc[q] = "thread"
    /\ fut[q].done
    /\ LET r == call_attempt(delay[q], [raised |-> fut[q].raised, obj |-> fut[q].obj])
       IN /\ delay' = [delay EXCEPT ![q] = r.delay]
          /\ IF r.again
             THEN /\ pc' = [pc EXCEPT ![q] = "retry_sleep"]
                  /\ sleepFor' = [sleepFor EXCEPT ![q] = r.sleep]
                  /\ ops' = [ops EXCEPT ![q] = @ \o r.ops \o <<"sleep">>]
                  /\ UNCHANGED callRes
             ELSE /\ pc' = [pc EXCEPT ![q] = "call_done"]
                  /\ callRes' = [callRes EXCEPT ![q] = [raised |-> r.raised, obj |-> r.obj]]
                  /\ ops' = [ops EXCEPT ![q] = @ \o r.ops]
                  /\ UNCHANGED sleepFor
    /\ fut' = [fut EXCEPT ![q] = NoFut]
    /\ UNCHANGED <<rt, env, bk, trueDivision, pair, queue, cur, poolQ, running, callSt, chan, received,
                   enq, started, dlv, tries, nThrottled, nPut, lastOut, usedArgs>>

\* faulty variant: after the sleep the error is raised instead of trying again
call_retry_giveup(q) ==
    /\ pc[q] = "retry_sleep"
    /\ pc' = [pc EXCEPT ![q] = "call_done"]
    /\ callRes' = [callRes EXCEPT ![q] = [raised |-> TRUE, obj |-> lastOut[cur[q].fn].obj]]
    /\ sleepFor' = [sleepFor EXCEPT ![q] = PyInt(0)]
    /\ UNCHANGED <<rt, env, bk, ops, trueDivision, pair, queue, cur, delay, fut, poolQ, running, callSt,
                   chan, received, enq, started, dlv, tries, nThrottled, nPut,
                   lastOut, usedArgs>>

\* faulty variant: after the sleep the dispatcher drops the call and takes the next entry
call_retry_skip(q) ==
    /\ pc[q] = "retry_sleep"
    /\ pc' = [pc EXCEPT ![q] = "get"]
    /\ sleepFor' = [sleepFor EXCEPT ![q] = PyInt(0)]
    /\ UNCHANGED <<rt, env, bk, ops, trueDivision, pair, queue, cur, callRes, delay, fut, poolQ,
                   running, callSt, chan, received, enq, started, dlv, tries,
                   nThrottled, nPut, lastOut, usedArgs>>

\* gen.sleep(self.delay) of the throttled branch is over: continue, and
\* self._thread(...) submits the same function and arguments again
call_retry(q) ==
    /\ pc[q] = "retry_sleep"
    /\ poolQ' = Append(poolQ, Task(q, cur[q]))
    /\ pc' = [pc EXCEPT ![q] = "thread"]
    /\ sleepFor' = [sleepFor EXCEPT ![q] = PyInt(0)]
    /\ ops' = [ops EXCEPT ![q] = Append(@, "thread")]
    /\ UNCHANGED <<rt, env, bk, trueDivision, pair, queue, cur, callRes, delay, fut, running, callSt,
                   chan, received, enq, started, dlv, tries, nThrottled, nPut,
                   lastOut, usedArgs>>

\* faulty variant: no pause at the smallest delay
Paces_strict(d) == d.n > delay_min.n
\* if self.delay > 0: the dispatcher sleeps before the next entry
Paces(d) == d.n > 0

\* faulty variant: one result queue for the whole ApiCallQueue, that of its first call
PutChannel_first(q) == enq[q][1]
\* faulty variant: the result queue is an attribute of the ApiCallQueue that
\* every call() overwrites
PutChannel_last(q) == enq[q][Len(enq[q])]
\* the result_queue the dispatcher puts the result on
PutChannel(q) == cur[q].ch

\* faulty variant: no loop, the dispatcher returns after its first entry
process_queue_put_once(q) ==
    /\ pc[q] = "call_done"
    /\ Len(chan[PutChannel(q)]) < 1
    /\ chan' = [chan EXCEPT ![PutChannel(q)] = Append(@, callRes[q].obj)]
    /\ nPut' = [nPut EXCEPT ![PutChannel(q)] = @ + 1]
    /\ dlv' = [dlv EXCEPT ![q] = Append(@, PutChannel(q))]
    /\ callRes' = [callRes EXCEPT ![q] = NoOut]
    /\ pc' = [pc EXCEPT ![q] = "exit"]
    /\ ops' = [ops EXCEPT ![q] = <<>>]
    /\ UNCHANGED <<rt, env, bk, sleepFor, trueDivision, pair, queue, cur, delay, fut,
                   poolQ, running, callSt, received, enq, started, tries, nThrottled,
                   lastOut, usedArgs>>

\* faulty variant: "except Exception": any other exception that _call raises
\* ends the dispatcher coroutine, and nothing is put
process_queue_put_narrow(q) ==
    /\ pc[q] = "call_done"
    /\ Len(chan[PutChannel(q)]) < 1
    /\ IF callRes[q].raised /\ ~IsException(callRes[q].obj)
       THEN /\ pc' = [pc EXCEPT ![q] = "exit"]
            /\ UNCHANGED <<chan, nPut, dlv, sleepFor>>
       ELSE /\ chan' = [chan EXCEPT ![PutChannel(q)] = Append(@, callRes[q].obj)]
            /\ nPut' = [nPut EXCEPT ![PutChannel(q)] = @ + 1]
            /\ dlv' = [dlv EXCEPT ![q] = Append(@, PutChannel(q))]
            /\ pc' = [pc EXCEPT ![q] = IF Paces(delay[q]) THEN "pace_sleep" ELSE "get"]
            /\ sleepFor' = [sleepFor EXCEPT ![q] =
                                IF Paces(delay[q]) THEN delay[q] ELSE PyInt(0)]
    /\ callRes' = [callRes EXCEPT ![q] = NoOut]
    /\ ops' = [ops EXCEPT ![q] = <<>>]
    /\ UNCHANGED <<rt, env, bk, trueDivision, pair, queue, cur, delay, fut, poolQ,
                   running, callSt, received, enq, started, tries, nThrottled, lastOut,
                   usedArgs>>

\* _call is over: result = its value, or (except BaseException as e) the
\* exception it raised;
\* yield result_queue.put(result); if self.delay > 0: yield gen.sleep(self.delay)
process_queue_put(q) ==
    /\ pc[q] = "call_done"
    /\ Len(chan[PutChannel(q)]) < 1
    /\ chan' = [chan EXCEPT ![PutChannel(q)] = Append(@, callRes[q].obj)]
    /\ nPut' = [nPut EXCEPT ![PutChannel(q)] = @ + 1]
    /\ dlv' = [dlv EXCEPT ![q] = Append(@, PutChannel(q))]
    /\ callRes' = [callRes EXCEPT ![q] = NoOut]
    /\ pc' = [pc EXCEPT ![q] = IF Paces(delay[q]) THEN "pace_sleep" ELSE "get"]
    /\ sleepFor' = [sleepFor EXCEPT ![q] = IF Paces(delay[q]) THEN delay[q] ELSE PyInt(0)]
    /\ ops' = [ops EXCEPT ![q] = <<>>]
    /\ UNCHANGED <<rt, env, bk, trueDivision, pair, queue, cur, delay, fut, poolQ, running, callSt,
                   received, enq, started, tries, nThrottled, lastOut, usedArgs>>

\* gen.sleep(self.delay) at the end of the loop body is over
process_queue_wake(q) ==
    /\ pc[q] = "pace_sleep"
    /\ pc' = [pc EXCEPT ![q] = "get"]
    /\ sleepFor' = [sleepFor EXCEPT ![q] = PyInt(0)]
    /\ UNCHANGED <<rt, env, bk, ops, trueDivision, pair, queue, cur, callRes, delay, fut, poolQ, running,
                   callSt, chan, received, enq, started, dlv, tries, nThrottled,
                   nPut, lastOut, usedArgs>>

----------------------------------------------------------------------------
(* EXECUTOR and _thread(): lines 10, 126-133 *)

\* faulty variant: a submitted task is executed at once, whatever the pool holds
thread_start_nolimit ==
    /\ poolQ # <<>>
    /\ LET t == Head(poolQ)
       IN /\ running' = running \cup {t}
          /\ tries' = [tries EXCEPT ![t.fn] = @ + 1]
          /\ usedArgs' = [usedArgs EXCEPT ![t.fn] = @ \cup {t.args}]
          /\ started' = IF tries[t.fn] = 0
                        THEN [started EXCEPT ![t.q] = Append(@, t.fn)]
                        ELSE started
    /\ poolQ' = Tail(poolQ)
    /\ UNCHANGED <<rt, env, bk, ops, sleepFor, trueDivision, pair, queue, pc, cur, callRes, delay,
                   fut, callSt, chan, received, enq, dlv, nThrottled, nPut, lastOut>>

\* a free worker takes the oldest submitted task and calls function(*args)
thread_start ==
    /\ poolQ # <<>>
    /\ Cardinality(running) < EXECUTOR_max_workers
    /\ LET t == Head(poolQ)
       IN /\ running' = running \cup {t}
          /\ tries' = [tries EXCEPT ![t.fn] = @ + 1]
          /\ usedArgs' = [usedArgs EXCEPT ![t.fn] = @ \cup {t.args}]
          /\ started' = IF tries[t.fn] = 0
                        THEN [started EXCEPT ![t.q] = Append(@, t.fn)]
                        ELSE started
    /\ poolQ' = Tail(poolQ)
    /\ UNCHANGED <<rt, env, bk, ops, sleepFor, trueDivision, pair, queue, pc, cur, callRes, delay, fut, callSt, chan,
                   received, enq, dlv, nThrottled, nPut, lastOut>>

\* what the callable may do in this invocation: the remote API throttles at
\* most MaxTries - 1 invocations of one call
MayEnd(t, s) == Throttling(s) => tries[t.fn] < MaxTries

\* function(*args, **kwargs) returns or raises: the worker resolves the future
thread_end(t, s) ==
    /\ t \in running
    /\ MayEnd(t, s)
    /\ LET o == [s.obj EXCEPT !.by = t.fn, !.try = tries[t.fn]]
       IN /\ fut' = [fut EXCEPT ![t.q] = [done |-> TRUE, raised |-> s.raised, obj |-> o]]
          /\ lastOut' = [lastOut EXCEPT ![t.fn] = [raised |-> s.raised, obj |-> o]]
    /\ nThrottled' = IF Throttling(s)
                     THEN [nThrottled EXCEPT ![t.fn] = @ + 1]
                     ELSE nThrottled
    /\ running' = running \ {t}
    /\ UNCHANGED <<rt, env, bk, ops, sleepFor, trueDivision, pair, queue, pc, cur, callRes, delay, poolQ, callSt, chan,
                   received, enq, started, dlv, tries, nPut, usedArgs>>

----------------------------------------------------------------------------
\* Callers are alike until they call and queue instances until they are used:
\* both are numbered in the order of their first call.
InOrder(c, q) ==
    /\ IF c = 1 THEN TRUE ELSE callSt[c - 1] # "idle"
    /\ IF q = 1 THEN TRUE ELSE enq[q - 1] # <<>>

Next ==
    \/ \E c \in Calls, q \in Queues : InOrder(c, q) /\ call(c, q)
    \/ \E c \in Calls : call_result(c)
    \/ \E q \in Queues : process_queue_get(q)
    \/ \E q \in Queues : call_resume(q)
    \/ \E q \in Queues : call_retry(q)
    \/ \E q \in Queues : process_queue_put(q)
    \/ \E q \in Queues : process_queue_wake(q)
    \/ thread_start
    \/ \E t \in running, s \in CoreShapes : thread_end(t, s)

\* Several callers and several queue instances sharing EXECUTOR, each caller
\* making one call.  Within the bounds the delay of a queue never becomes an
\* int other than 0, so the kind of division makes no difference here.
InitFloor == Init /\ trueDivision = FALSE

Spec == InitFloor /\ [][Next]_vars

\* One caller making call after call on one queue instance, its callable
\* ending in every way of Shapes.
NextOne ==
    \/ call(1, 1)
    \/ call_result(1)
    \/ call_again(1)
    \/ process_queue_get(1)
    \/ call_resume(1)
    \/ call_retry(1)
    \/ process_queue_put(1)
    \/ process_queue_wake(1)
    \/ thread_start
    \/ \E t \in running, s \in Shapes : thread_end(t, s)

SpecOne == Init /\ [][NextOne]_vars

----------------------------------------------------------------------------
(* Several callers submitting to one queue instance, the callables ending  *)
(* in every way of LiveShapes.  The IOLoop runs every coroutine that can   *)
(* run, a worker of EXECUTOR takes a submitted task, and a callable that   *)
(* is executing returns or raises in the end.                              *)

\* The ways a callable ends here: those of CoreShapes, and an exception that is
\* no Exception (KeyboardInterrupt derives from BaseException)
LiveShapes == CoreShapes \cup { Raises(Obj("KeyboardInterrupt", 0, "", <<>>, "")) }

NextLive ==
    \/ \E c \in Calls : InOrder(c, 1) /\ call(c, 1)
    \/ \E c \in Calls : call_result(c)
    \/ process_queue_get(1)
    \/ call_resume(1)
    \/ call_retry(1)
    \/ process_queue_put(1)
    \/ process_queue_wake(1)
    \/ thread_start
    \/ \E t \in running, s \in LiveShapes : thread_end(t, s)

Fairness ==
    /\ \A c \in Calls : WF_vars(call_result(c))
    /\ WF_vars(process_queue_get(1))
    /\ WF_vars(call_resume(1))
    /\ WF_vars(call_retry(1))
    /\ WF_vars(process_queue_put(1))
    /\ WF_vars(process_queue_wake(1))
    /\ WF_vars(thread_start)
    /\ WF_vars(\E t \in running, s \in LiveShapes : thread_end(t, s))

SpecLive == InitFloor /\ [][NextLive]_vars /\ Fairness

----------------------------------------------------------------------------
(* Two dispatchers side by side, fed the same outcomes, except that where  *)
(* the first is raised a boto2 error with code 'Throttling' the second is  *)
(* raised a boto3 error with code 'Throttling'.                            *)

\* the outcome of the same attempt made through boto3
AsBoto3(s) ==
    IF s.raised /\ s.obj.cls = "BotoServerError" /\ s.obj.code = <<"Throttling">>
    THEN Raises(ClientError("Throttling", s.obj.message))
    ELSE s

\* one attempt of the current call of run r ends with o: _call handles it, and
\* when _call is over _process_queue sleeps if self.delay > 0; a run whose
\* call is over starts its next call
run_step(r, o) ==
    LET r0 == IF r.done THEN Run(r.delay) ELSE r
        st == call_attempt(r0.delay, o)
    IN  [delay |-> st.delay,
         sleeps |-> IF st.again THEN Append(r0.sleeps, st.sleep)
                    ELSE IF Paces(st.delay) THEN Append(r0.sleeps, st.delay)
                    ELSE r0.sleeps,
         calls |-> r0.calls + 1,
         done |-> ~st.again,
         raised |-> st.raised,
         obj |-> st.obj]

PairStep(s) ==
    /\ Throttling(s) => (IF pair.a.done THEN 0 ELSE pair.a.calls) + 1 < MaxTries
    /\ pair' = [a |-> run_step(pair.a, s),
                b |-> run_step(pair.b, AsBoto3(s)),
                differ |-> (IF pair.a.done THEN 0 ELSE pair.differ)
                              + (IF AsBoto3(s) # s THEN 1 ELSE 0)]
    /\ UNCHANGED <<rt, env, bk, ops, sleepFor, trueDivision, queue, pc, cur, callRes, delay, fut, poolQ, running,
                   callSt, chan, received, enq, started, dlv, tries, nThrottled,
                   nPut, lastOut, usedArgs>>

NextPair == \E s \in Shapes : PairStep(s)

SpecPair == Init /\ [][NextPair]_vars

----------------------------------------------------------------------------
(* One more ApiCallQueue instance than EXECUTOR has workers, each with one *)
(* caller: the callers call one after the other, the dispatchers dequeue   *)
(* in that order, the callables return a value, and at most MaxDone of     *)
(* them return at all: the others stay blocked in the remote call.         *)

PoolQueues == 1..(EXECUTOR_max_workers + 1)

InitPool ==
    /\ rt = NoRetry
    /\ env = NoEnv
    /\ trueDivision = FALSE
    /\ bk = Backoff(delay_init)
    /\ pair = [a |-> Run(delay_init), b |-> Run(delay_init), differ |-> 0]
    /\ queue = [q \in PoolQueues |-> <<>>]
    /\ pc = [q \in PoolQueues |-> "get"]
    /\ cur = [q \in PoolQueues |-> NoEntry]
    /\ callRes = [q \in PoolQueues |-> NoOut]
    /\ delay = [q \in PoolQueues |-> delay_init]
    /\ fut = [q \in PoolQueues |-> NoFut]
    /\ poolQ = <<>>
    /\ running = {}
    /\ callSt = [c \in PoolQueues |-> "idle"]
    /\ chan = [c \in PoolQueues |-> <<>>]
    /\ received = [c \in PoolQueues |-> NoObj]
    /\ enq = [q \in PoolQueues |-> <<>>]
    /\ started = [q \in PoolQueues |-> <<>>]
    /\ dlv = [q \in PoolQueues |-> <<>>]
    /\ tries = [c \in PoolQueues |-> 0]
    /\ nThrottled = [c \in PoolQueues |-> 0]
    /\ nPut = [c \in PoolQueues |-> 0]
    /\ lastOut = [c \in PoolQueues |-> NoOut]
    /\ usedArgs = [c \in PoolQueues |-> {}]
    /\ ops = [q \in PoolQueues |-> <<>>]
    /\ sleepFor = [q \in PoolQueues |-> PyInt(0)]

\* the callables that have returned
Done == {c \in PoolQueues : lastOut[c] # NoOut}

\* the instances before q have dequeued their call
Dequeued(q) == IF q = 1 THEN TRUE ELSE cur[q - 1] # NoEntry

NextPool ==
    \/ \E c \in PoolQueues : InOrder(c, c) /\ call(c, c)
    \/ \E c \in PoolQueues : call_result(c)
    \/ \E q \in PoolQueues : Dequeued(q) /\ process_queue_get(q)
    \/ \E q \in PoolQueues : call_resume(q)
    \/ \E q \in PoolQueues : process_queue_put(q)
    \/ thread_start
    \/ \E t \in running :
          /\ Cardinality(Done) < MaxDone
          /\ thread_end(t, Returns(Obj("str", 0, "", <<>>, "ok")))

SpecPool == InitPool /\ [][NextPool]_vars

----------------------------------------------------------------------------
(* decrease_delay() and increase_delay() called directly, in any order, on  *)
(* a new ApiCallQueue: lines 110-124                                       *)

\* op is called when the delay is bk.delay and leaves it at d
backoff_call(op, d) ==
    /\ bk.op = op => Len(bk.run) < MaxRun
    /\ bk' = [delay |-> d,
              op |-> op,
              from |-> IF bk.op = op THEN bk.from ELSE bk.delay,
              run |-> IF bk.op = op THEN Append(bk.run, d) ELSE <<d>>,
              prev |-> IF bk.op = op THEN bk.prev
                       ELSE [from |-> bk.from, n |-> Len(bk.run)]]
    /\ UNCHANGED <<rt, env, ops, sleepFor, trueDivision, pair, queue, pc, cur, callRes,
                   delay, fut, poolQ, running, callSt, chan, received, enq, started,
                   dlv, tries, nThrottled, nPut, lastOut, usedArgs>>

do_increase_delay == backoff_call("increase_delay", increase_delay(bk.delay))
do_decrease_delay == backoff_call("decrease_delay", decrease_delay(bk.delay))

NextDelay == do_increase_delay \/ do_decrease_delay

SpecDelay == Init /\ [][NextDelay]_vars

----------------------------------------------------------------------------
(* utils.retry(excs, retries, delay): lines 189-229.  The wrapper tries the *)
(* operation f, and hands the result to its caller with raise gen.Return.  *)

\* the classes an exception class derives from, itself included;
\* tornado.gen.Return is a subclass of Exception
Ancestors(cls) ==
    IF cls = "KeyboardInterrupt" THEN {cls, "BaseException"}
    ELSE {cls, "Exception", "BaseException"}

\* except excs as e: does the clause catch an exception of class cls
Caught(excs, cls) == Ancestors(cls) \cap excs # {}

\* what one try of f can do
RetryShapes ==
    { Returns(Obj("str", 0, "", <<>>, "ok")),
      Raises(Obj("ValueError", 0, "", <<>>, "bad")),
      Raises(Obj("KeyError", 0, "", <<>>, "missing")),
      Raises(Obj("KeyboardInterrupt", 0, "", <<>>, "")) }

\* the excs a decorated operation is declared with: one class, a tuple of
\* classes, and Exception as in the example of the docstring
RetryExcs == { {"ValueError"}, {"ValueError", "KeyError"}, {"Exception"} }

InitRetry ==
    /\ rt \in {[NoRetry EXCEPT !.excs = x, !.retries = r, !.i = 1, !.pc = "try"] :
                    x \in RetryExcs, r \in 1..MaxRetries}
    /\ env = NoEnv
    /\ InitQueues
    /\ trueDivision = FALSE

\* the wrapper is left, by raise gen.Return(ret) or by an exception
retry_leave(r, out) ==
    [r EXCEPT !.pc = IF out.raised THEN "raised" ELSE "returned", !.res = out]

\* one pass of the while loop: ret = yield gen.coroutine(f)(...), then
\* raise gen.Return(ret) inside the try, and the except clause
retry_try(s) ==
    /\ rt.pc = "try"
    /\ LET out == [s EXCEPT !.obj.try = rt.calls + 1]
           e == IF s.raised THEN s.obj.cls ELSE "Return"
           r == [rt EXCEPT !.calls = @ + 1, !.outs = Append(@, out)]
       IN rt' = IF ~Caught(rt.excs, e) THEN retry_leave(r, out)
                ELSE IF rt.i >= rt.retries THEN retry_leave(r, out)
                ELSE [r EXCEPT !.i = @ + 1, !.sleeps = @ + 1, !.pc = "sleep"]
    /\ UNCHANGED <<env, bk, ops, sleepFor, trueDivision, pair, queue, pc, cur, callRes,
                   delay, fut, poolQ, running, callSt, chan, received, enq, started,
                   dlv, tries, nThrottled, nPut, lastOut, usedArgs>>

\* yield tornado_sleep(delay) is over: the loop goes round
retry_wake ==
    /\ rt.pc = "sleep"
    /\ rt' = [rt EXCEPT !.pc = "try"]
    /\ UNCHANGED <<env, bk, ops, sleepFor, trueDivision, pair, queue, pc, cur, callRes,
                   delay, fut, poolQ, running, callSt, chan, received, enq, started,
                   dlv, tries, nThrottled, nPut, lastOut, usedArgs>>

NextRetry ==
    \/ \E s \in RetryShapes : retry_try(s)
    \/ retry_wake

SpecRetry == InitRetry /\ [][NextRetry]_vars

----------------------------------------------------------------------------
(* utils.populate_with_env(string): lines 243-267.  A string is the         *)
(* sequence of its characters; os.environ is the sequence of its (key,     *)
(* value) items in the order iteritems() yields them.                      *)

\* the characters [\w] matches among those the strings are made of
WordChars == {"f", "o", "M", "E", "b", "a", "r", "i", "z", "H", "O", "x"}

StartsWith(str, pat) == Len(str) >= Len(pat) /\ SubSeq(str, 1, Len(pat)) = pat

\* str.replace(pat, val): the occurrences of pat from left to right, not overlapping
RECURSIVE str_replace(_, _, _)
str_replace(str, pat, val) ==
    IF str = <<>> THEN <<>>
    ELSE IF StartsWith(str, pat)
    THEN val \o str_replace(SubSeq(str, Len(pat) + 1, Len(str)), pat, val)
    ELSE <<Head(str)>> \o str_replace(Tail(str), pat, val)

\* '%%%s%%' % k
Token(k) == <<"%">> \o k \o <<"%">>

\* for k, v in os.environ.iteritems(): string = string.replace('%%%s%%' % k, v)
RECURSIVE replace_env(_, _)
replace_env(str, items) ==
    IF items = <<>> THEN str
    ELSE replace_env(str_replace(str, Token(Head(items).k), Head(items).v), Tail(items))

\* the length of the longest run of [\w] characters str begins with
RECURSIVE WordRun(_)
WordRun(str) ==
    IF str # <<>> /\ Head(str) \in WordChars THEN 1 + WordRun(Tail(str)) ELSE 0

\* set(re.findall(r'%[\w]+%', str))
RECURSIVE findall_tokens(_)
findall_tokens(str) ==
    IF str = <<>> THEN {}
    ELSE LET n == WordRun(Tail(str))
         IN IF Head(str) = "%" /\ n >= 1 /\ Len(str) >= n + 2 /\ str[n + 2] = "%"
            THEN {SubSeq(str, 1, n + 2)} \cup findall_tokens(SubSeq(str, n + 3, Len(str)))
            ELSE findall_tokens(Tail(str))

\* the pieces the strings given to populate_with_env are made of:
\* 'foo', ' ', '%ME%', '%bar%', '%'
Pieces ==
    { <<"f", "o", "o">>, <<" ">>, <<"%", "M", "E", "%">>,
      <<"%", "b", "a", "r", "%">>, <<"%">> }

\* ME=biz and HOME=x
EnvME == [k |-> <<"M", "E">>, v |-> <<"b", "i", "z">>]
EnvHOME == [k |-> <<"H", "O", "M", "E">>, v |-> <<"x">>]
Environs == { <<>>, <<EnvME>>, <<EnvHOME>>, <<EnvME, EnvHOME>>, <<EnvHOME, EnvME>> }

RECURSIVE Concat(_)
Concat(ps) == IF ps = <<>> THEN <<>> ELSE Head(ps) \o Concat(Tail(ps))

InitEnv ==
    /\ env \in {[NoEnv EXCEPT !.pieces = ps, !.string = Concat(ps), !.environ = e,
                               !.pc = "call"] :
                     ps \in UNION {[1..n -> Pieces] : n \in 0..MaxPieces},
                     e \in Environs}
    /\ rt = NoRetry
    /\ InitQueues
    /\ trueDivision = FALSE

populate_with_env ==
    /\ env.pc = "call"
    /\ LET str == replace_env(env.string, env.environ)
           missed_tokens == findall_tokens(str)
       IN env' = [env EXCEPT !.res = str,
                             !.missed = missed_tokens,
                             !.pc = IF missed_tokens # {} THEN "raised" ELSE "returned"]
    /\ UNCHANGED <<rt, bk, ops, sleepFor, trueDivision, pair, queue, pc, cur, callRes,
                   delay, fut, poolQ, running, callSt, chan, received, enq, started,
                   dlv, tries, nThrottled, nPut, lastOut, usedArgs>>

NextEnv == populate_with_env

SpecEnv == InitEnv /\ [][NextEnv]_vars

----------------------------------------------------------------------------
(* Properties *)

Range(seq) == {seq[i] : i \in DOMAIN seq}
IsPrefix(a, b) == Len(a) <= Len(b) /\ \A i \in DOMAIN a : a[i] = b[i]

\* the callables of queue q that EXECUTOR holds, waiting for a worker or running
PoolWaiting(q) == {i \in DOMAIN poolQ : poolQ[i].q = q}
PoolRunning(q) == {t \in running : t.q = q}
InPool(q) == Cardinality(PoolWaiting(q)) + Cardinality(PoolRunning(q))

\* C1: for each queue instance at most one submitted callable is waiting in or
\* executed by the worker pool, it is the callable of the entry dequeued last,
\* and the dispatcher is suspended in _call waiting for it, however many callers
\* have called call().
C1_OneInFlight ==
    \A q \in Queues :
        /\ InPool(q) <= 1
        /\ InPool(q) = 1 =>
              /\ pc[q] = "thread"
              /\ ~fut[q].done
              /\ \A i \in PoolWaiting(q) : poolQ[i].fn = cur[q].fn
              /\ \A t \in PoolRunning(q) : t.fn = cur[q].fn
        /\ pc[q] \in {"retry_sleep", "call_done", "pace_sleep", "get"} => InPool(q) = 0

\* C1 witness: a callable of q is executing while another call waits in q's queue
C1_Witness ==
    \E q \in Queues :
        /\ Cardinality(PoolRunning(q)) = 1
        /\ queue[q] # <<>>

\* C2: on every queue the callables are first executed in the order the calls
\* were enqueued, and the results are put in that same order, retries included.
C2_Fifo ==
    \A q \in Queues :
        /\ IsPrefix(started[q], enq[q])
        /\ IsPrefix(dlv[q], started[q])

\* C2 witness: two results were delivered on one queue, the first after a retry
\* during which the second call was already enqueued
C2_Witness ==
    \E q \in Queues :
        /\ Len(dlv[q]) >= 2
        /\ nThrottled[dlv[q][1]] >= 1

\* C3: every result channel is written at most once, exactly once as soon as
\* the dispatcher is done with the call, and what is written to (and read from)
\* the channel of call c is the outcome of the last attempt of c's own callable.
OwnOutcome(c, o) ==
    /\ o.by = c
    /\ o.try = tries[c]
    /\ \/ o = lastOut[c].obj
       \/ o.cls = "InvalidCredentials" /\ lastOut[c].obj.cls = "BotoServerError"

C3_ExactlyOnce ==
    \A c \in Calls :
        /\ nPut[c] <= 1
        /\ Len(chan[c]) <= nPut[c]
        /\ \A i \in DOMAIN chan[c] : OwnOutcome(c, chan[c][i])
        /\ callSt[c] \in {"returned", "raised"} =>
              nPut[c] = 1 /\ chan[c] = <<>> /\ OwnOutcome(c, received[c])
        /\ \A q \in Queues :
              (c \in Range(started[q]) /\ (cur[q].ch # c \/ pc[q] \in {"get", "pace_sleep"}))
                  => nPut[c] = 1

\* C3 witness: two callers of one queue have received different outcomes
C3_Witness ==
    \E q \in Queues : \E c1, c2 \in Range(dlv[q]) :
        /\ callSt[c1] = "returned"
        /\ callSt[c2] = "raised"
        /\ nThrottled[c1] >= 1

\* C4: the delay of a queue is 0 or lies in [0.25 s, 30 s], that is
\* [16, 1920] ticks, whatever mix of throttled, successful and failing calls
\* drove increase_delay and decrease_delay.
C4_DelayRange ==
    \A q \in Queues :
        \/ delay[q].n = 0
        \/ delay[q].n * 4 >= 64 /\ delay[q].n <= 30 * 64

\* C4 witness: a throttled attempt found the delay at 30 s and left it there
C4_Witness ==
    /\ pc[1] = "retry_sleep"
    /\ delay[1].n = 30 * 64
    /\ nThrottled[1] >= 1

\* what call c was given: the object on its result queue, or the one call() got
Delivered(c) == IF chan[c] # <<>> THEN chan[c][1] ELSE received[c]

\* C5: no error the remote API raised to signal throttling is the outcome of
\* _call, is put on a result queue or reaches a caller; after such an attempt
\* the dispatcher is in (or about to enter) the retry of the same call.
C5_ThrottlingAbsorbed ==
    /\ \A q \in Queues : ~Throttling(Raises(callRes[q].obj))
    /\ \A c \in Calls :
          /\ \A i \in DOMAIN chan[c] : ~Throttling(Raises(chan[c][i]))
          /\ ~Throttling(Raises(received[c]))
          /\ Throttling(lastOut[c]) =>
                /\ nPut[c] = 0
                /\ callSt[c] = "waiting"
                /\ \A q \in Queues :
                      cur[q].fn = c => pc[q] \in {"thread", "retry_sleep"}

\* C5 witness: a 'Rate exceeded' error was raised and the call is being retried
C5_Witness ==
    /\ pc[1] = "retry_sleep"
    /\ lastOut[1].raised
    /\ lastOut[1].obj.code = <<"Rate exceeded">>

\* C6: a call whose result is delivered was invoked once more than it was
\* throttled, each time with the arguments it was submitted with; if the last
\* attempt returned a value, that value is what the caller is given, and
\* call() returns it.
C6_RetryUntilDone ==
    \A c \in Calls :
        /\ tries[c] <= nThrottled[c] + 1
        /\ usedArgs[c] \subseteq {Entry(c).args}
        /\ nPut[c] = 1 =>
              /\ tries[c] = nThrottled[c] + 1
              /\ (~lastOut[c].raised /\ ~IsException(lastOut[c].obj)) =>
                    /\ Delivered(c) = lastOut[c].obj
                    /\ callSt[c] \in {"waiting", "returned"}

\* C6 witness: the caller got the value of an attempt that followed as many
\* throttled attempts as the bound allows
C6_Witness ==
    /\ callSt[1] = "returned"
    /\ received[1].message = "ok"
    /\ nThrottled[1] = MaxTries - 1
    /\ nThrottled[1] >= 1
    /\ tries[1] = MaxTries

\* a boto2 error with HTTP status 403 that does not signal throttling
Legacy403(s) ==
    /\ s.raised
    /\ s.obj.cls = "BotoServerError"
    /\ s.obj.status = 403
    /\ ~Throttling(s)

\* C7: when the last attempt of a call raised a boto2 error with status 403 and
\* a code that is not a throttling code, the caller is given an
\* InvalidCredentials error whose message is "<code>: <message>" of that error,
\* call() raises it, and the 403 is not retried: the callable was invoked once,
\* plus once per earlier throttled attempt.
C7_Forbidden ==
    \A c \in Calls :
        Legacy403(lastOut[c]) =>
            /\ \A q \in Queues : cur[q].fn = c => pc[q] # "retry_sleep"
            /\ tries[c] = nThrottled[c] + 1
            /\ nPut[c] = 1 =>
                  /\ Delivered(c).cls = "InvalidCredentials"
                  /\ Delivered(c).message =
                        (IF lastOut[c].obj.code = <<>> THEN "None" ELSE lastOut[c].obj.code[1])
                            \o ": " \o lastOut[c].obj.message
                  /\ lastOut[c].obj.code = <<"AccessDenied">> =>
                        Delivered(c).message = "AccessDenied: denied"
                  /\ callSt[c] \in {"waiting", "raised"}

\* C7 witness: call() raised InvalidCredentials for a 403 after one invocation
C7_Witness ==
    /\ callSt[1] = "raised"
    /\ Legacy403(lastOut[1])
    /\ received[1].cls = "InvalidCredentials"
    /\ received[1].message = "AccessDenied: denied"
    /\ tries[1] = 1

\* a boto2 error with status 400 and reason 'Bad Request' whose code is one of codes
Blank400(s, codes) ==
    /\ s.raised
    /\ s.obj.cls = "BotoServerError"
    /\ s.obj.status = 400
    /\ s.obj.reason = "Bad Request"
    /\ s.obj.code \in codes

Expired(c) ==
    /\ Delivered(c).cls = "InvalidCredentials"
    /\ Delivered(c).message = "Access credentials have expired"

\* C8 as stated: a boto2 400 'Bad Request' whose code is absent or the empty
\* string is delivered as InvalidCredentials('Access credentials have expired'),
\* without a retry.
C8_Original ==
    \A c \in Calls :
        (Blank400(lastOut[c], {<<>>, <<"">>}) /\ nPut[c] = 1) =>
            Expired(c) /\ tries[c] = nThrottled[c] + 1

\* C8 amended: a boto2 400 'Bad Request' whose code is absent (None) is
\* delivered as InvalidCredentials('Access credentials have expired'), without
\* a retry; with the empty string as code the error is not translated: the
\* caller is given the BotoServerError itself.
C8_Amended ==
    \A c \in Calls :
        /\ (Blank400(lastOut[c], {<<>>}) /\ nPut[c] = 1) =>
              /\ Expired(c)
              /\ tries[c] = nThrottled[c] + 1
              /\ callSt[c] \in {"waiting", "raised"}
        /\ (Blank400(lastOut[c], {<<"">>}) /\ nPut[c] = 1) =>
              /\ Delivered(c) = lastOut[c].obj
              /\ tries[c] = nThrottled[c] + 1
              /\ callSt[c] \in {"waiting", "raised"}

\* C8 witness: call() raised 'Access credentials have expired' for a 400 without code
C8_Witness ==
    /\ callSt[1] = "raised"
    /\ Blank400(lastOut[1], {<<>>})
    /\ received[1].message = "Access credentials have expired"
    /\ tries[1] = 1

\* an error that signals neither throttling nor a credential failure
OtherError(s) ==
    /\ s.raised
    /\ ~Throttling(s)
    /\ ~Legacy403(s)
    /\ ~Blank400(s, {<<>>})

\* C10: when the last attempt of a call raised an error that is neither
\* throttling nor a credential failure, the caller is given that very error
\* object, unchanged in kind and content, the error is not retried, and call()
\* raises it (an Exception; what call() does with an error that is no
\* Exception is the subject of C26).
C10_Verbatim ==
    \A c \in Calls :
        OtherError(lastOut[c]) =>
            /\ \A q \in Queues : cur[q].fn = c => pc[q] # "retry_sleep"
            /\ tries[c] = nThrottled[c] + 1
            /\ nPut[c] = 1 =>
                  /\ Delivered(c) = lastOut[c].obj
                  /\ callSt[c] = "waiting" \/ received[c] = lastOut[c].obj
                  /\ IsException(lastOut[c].obj) => callSt[c] \in {"waiting", "raised"}

\* C10 witness: call() raised the ClientError its callable raised, after one invocation
C10_Witness ==
    /\ callSt[1] = "raised"
    /\ OtherError(lastOut[1])
    /\ received[1] = lastOut[1].obj
    /\ received[1].cls = "ClientError"
    /\ tries[1] = 1

\* C9: two dispatchers given the same outcomes, one with boto2 'Throttling'
\* errors where the other has boto3 'Throttling' errors, agree after every
\* attempt on the delay, on the sleeps made, on the number of invocations of
\* the current call and on what the call ended with.
C9_SameAsLegacy ==
    /\ pair.a.delay = pair.b.delay
    /\ pair.a.sleeps = pair.b.sleeps
    /\ pair.a.calls = pair.b.calls
    /\ pair.a.done = pair.b.done
    /\ pair.a.raised = pair.b.raised
    /\ pair.a.obj = pair.b.obj

\* C9 witness: a call that was throttled (boto2 error on one side, boto3 error
\* on the other), slept, was invoked again and returned
C9_Witness ==
    /\ pair.differ >= 1
    /\ pair.a.done
    /\ ~pair.a.raised
    /\ pair.a.calls >= 2
    /\ Len(pair.b.sleeps) >= 1

----------------------------------------------------------------------------
\* how many times _call did x for the entry q handles
Count(q, x) == Cardinality({i \in DOMAIN ops[q] : ops[q][i] = x})

\* _call of q is over and its outcome is not yet on the result queue
Terminated(q) == pc[q] = "call_done"

\* the last attempt of c raised an exception of neither boto2 nor boto3
Foreign(c) ==
    /\ lastOut[c].raised
    /\ lastOut[c].obj.cls \notin {"BotoServerError", "ClientError"}

\* C11 as stated: whenever _call is over (a value, a translated credential
\* error, or any other error of the callable, of boto2, of boto3 or of neither)
\* decrease_delay was invoked exactly once, after the last attempt and before
\* the outcome is delivered.
C11_Original ==
    \A q \in Queues :
        Terminated(q) =>
            /\ Count(q, "decrease_delay") = 1
            /\ ops[q][Len(ops[q])] = "decrease_delay"

\* C11 amended: when _call is over with a value, a translated credential error
\* or any other boto2 or boto3 error, decrease_delay was invoked exactly once,
\* after the last attempt and before the outcome is delivered; when the callable
\* raised an exception of neither library, _call is over without any
\* decrease_delay, the last thing it did being the attempt itself.
C11_Amended ==
    \A q \in Queues :
        Terminated(q) =>
            IF Foreign(cur[q].fn)
            THEN /\ Count(q, "decrease_delay") = 0
                 /\ ops[q][Len(ops[q])] = "thread"
            ELSE /\ Count(q, "decrease_delay") = 1
                 /\ ops[q][Len(ops[q])] = "decrease_delay"
                 /\ ops[q][Len(ops[q]) - 1] = "thread"

\* C11 witness: a 403 was translated after a throttled attempt, and the one
\* decrease_delay brought the delay back from 0.25 s to 0
C11_Witness ==
    /\ Terminated(1)
    /\ callRes[1].obj.cls = "InvalidCredentials"
    /\ Legacy403(lastOut[1])
    /\ nThrottled[1] >= 1
    /\ Count(1, "decrease_delay") = 1
    /\ delay[1].n = 0

----------------------------------------------------------------------------
\* seconds as ticks: 0.25, 0.5, 1, 2, 4, 8, 16, 30
Growth == <<16, 32, 64, 128, 256, 512, 1024, 1920>>
\* seconds as ticks: 15, 7.5, 3.75, 1.875, 0.9375, 0.46875, 0.25, 0
Decay == <<960, 480, 240, 120, 60, 30, 16, 0>>

\* C12: starting from delay 0, the i-th increase_delay() in a row leaves the
\* delay at 0.25, 0.5, 1, 2, 4, 8, 16, 30 for i = 1..8 and at 30 from then on;
\* whatever the start, the delay after an increase_delay() is at most 30.
C12_Growth ==
    bk.op = "increase_delay" =>
        /\ \A i \in DOMAIN bk.run : bk.run[i].n <= 30 * 64
        /\ bk.from.n = 0 =>
              \A i \in DOMAIN bk.run :
                  bk.run[i].n = IF i <= Len(Growth) THEN Growth[i] ELSE 30 * 64

\* C12 witness: ten increase_delay() in a row from 0, the last three leaving 30
C12_Witness ==
    /\ bk.op = "increase_delay"
    /\ bk.from.n = 0
    /\ Len(bk.run) >= 10
    /\ bk.run[8].n = 30 * 64
    /\ bk.run[10].n = 30 * 64

\* C13: starting from delay 30, the i-th decrease_delay() in a row leaves the
\* delay at 15, 7.5, 3.75, 1.875, 0.9375, 0.46875, 0.25, 0 for i = 1..8 and
\* at 0 from then on.
C13_Decay ==
    (bk.op = "decrease_delay" /\ bk.from.n = 30 * 64) =>
        \A i \in DOMAIN bk.run :
            bk.run[i].n = IF i <= Len(Decay) THEN Decay[i] ELSE 0

\* C14: decrease_delay() called when the delay is 0 leaves the delay as it is,
\* the same value 0, however many times in a row it is called.
C14_FloorNoop ==
    (bk.op = "decrease_delay" /\ bk.from.n = 0) =>
        \A i \in DOMAIN bk.run : bk.run[i] = bk.from

\* C14 witness: decrease_delay() was called ten times in a row at delay 0,
\* after the delay had been raised and brought back to 0
C14_Witness ==
    /\ bk.op = "decrease_delay"
    /\ bk.from.n = 0
    /\ Len(bk.run) >= 10
    /\ bk.delay.n = 0

----------------------------------------------------------------------------
\* the callables a worker has started executing at some time
Executed == {c \in DOMAIN tries : tries[c] >= 1}

\* C15: EXECUTOR never executes more than 10 callables; a callable submitted
\* while it waits for a worker has not been executed, its dispatcher is still
\* suspended in _call on the unresolved future and has delivered nothing; and
\* more than 10 callables have started executing only if as many as exceed 10
\* have completed.
C15_PoolCapacity ==
    /\ Cardinality(running) <= 10
    /\ \A i \in DOMAIN poolQ :
          /\ tries[poolQ[i].fn] = 0
          /\ pc[poolQ[i].q] = "thread"
          /\ ~fut[poolQ[i].q].done
          /\ nPut[poolQ[i].fn] = 0
          /\ callSt[poolQ[i].fn] = "waiting"
    /\ Cardinality(Executed) <= 10 + Cardinality({c \in Executed : lastOut[c] # NoOut})

\* C15 witness: 10 callables are executing, none has completed, and the 11th
\* is submitted and waits
C15_Witness ==
    /\ Cardinality(running) = 10
    /\ Cardinality(running) = EXECUTOR_max_workers
    /\ \A c \in DOMAIN lastOut : lastOut[c] = NoOut
    /\ Len(poolQ) = 1
    /\ Cardinality({t.q : t \in running} \cup {poolQ[1].q}) = 11

----------------------------------------------------------------------------
\* the attempts of call c that have ended
Ended(c) == tries[c] - Cardinality({t \in running : t.fn = c})

\* call c was dequeued and the remote API has throttled every attempt of it
\* that has ended
OnlyThrottled(c) == tries[c] >= 1 /\ nThrottled[c] = Ended(c)

\* C16: as long as every attempt of a dequeued call has been throttled, the
\* call has no result delivered and its caller still waits, the dispatcher of
\* its queue is inside the retry loop of that call (awaiting the attempt or in
\* the sleep before the next one), and every call enqueued behind it on that
\* queue is still in the queue, never executed and with nothing delivered.
C16_Stalled ==
    \A q \in Queues : \A i \in DOMAIN enq[q] :
        OnlyThrottled(enq[q][i]) =>
            /\ nPut[enq[q][i]] = 0
            /\ callSt[enq[q][i]] = "waiting"
            /\ cur[q].fn = enq[q][i]
            /\ pc[q] \in {"thread", "retry_sleep"}
            /\ \A j \in DOMAIN enq[q] :
                  j > i =>
                      /\ tries[enq[q][j]] = 0
                      /\ nPut[enq[q][j]] = 0
                      /\ callSt[enq[q][j]] = "waiting"
                      /\ \E k \in DOMAIN queue[q] : queue[q][k].fn = enq[q][j]

\* C16 witness: a call throttled as often as the bound allows is in the sleep
\* before its next attempt while another call waits behind it in the queue
C16_Witness ==
    \E q \in Queues :
        /\ pc[q] = "retry_sleep"
        /\ nThrottled[cur[q].fn] = MaxTries - 1
        /\ OnlyThrottled(cur[q].fn)
        /\ nThrottled[cur[q].fn] >= 1
        /\ queue[q] # <<>>

----------------------------------------------------------------------------
\* C19: in every step, a dispatcher that delivers the outcome of a call goes
\* into a sleep of exactly the current delay when the delay is greater than 0
\* and straight back to self._queue.get() when it is 0; during that sleep the
\* delay, the queue's head and the dequeued entry stay as they are; and an
\* entry is dequeued only by a dispatcher that is at self._queue.get() and not
\* asleep, whoever submitted the entry.
C19_Pacing ==
    [][\A q \in Queues :
          /\ (pc[q] = "call_done" /\ pc'[q] # "call_done") =>
                /\ nPut'[cur[q].ch] = nPut[cur[q].ch] + 1
                /\ cur'[q] = cur[q]
                /\ Len(queue'[q]) >= Len(queue[q])
                /\ IF delay[q].n > 0
                   THEN pc'[q] = "pace_sleep" /\ sleepFor'[q] = delay[q]
                   ELSE pc'[q] = "get" /\ sleepFor'[q].n = 0
          /\ pc[q] = "pace_sleep" =>
                /\ sleepFor[q] = delay[q]
                /\ delay[q].n > 0
                /\ delay'[q] = delay[q]
                /\ cur'[q] = cur[q]
                /\ Len(queue'[q]) >= Len(queue[q])
                /\ pc'[q] \in {"pace_sleep", "get"}
          /\ Len(queue'[q]) < Len(queue[q]) =>
                /\ pc[q] = "get"
                /\ sleepFor[q].n = 0
                /\ cur'[q] = Head(queue[q])
      ]_vars

\* C19 witness: the dispatcher sleeps for the delay that the throttled call of
\* one caller left behind, while the call of another caller waits in the queue
C19_Witness ==
    \E q \in Queues :
        /\ pc[q] = "pace_sleep"
        /\ nThrottled[cur[q].fn] >= 1
        /\ nPut[cur[q].ch] = 1
        /\ sleepFor[q] = delay[q]
        /\ delay[q].n >= delay_min.n
        /\ queue[q] # <<>>
        /\ Head(queue[q]).fn # cur[q].fn

----------------------------------------------------------------------------
\* C20: what _call does for an entry is: the attempt, then for each throttled
\* attempt exactly one increase_delay, one sleep, and the next attempt, in this
\* order, and a decrease_delay only as the very last thing once _call is over;
\* the sleep before a retry lasts the delay as increase_delay left it, which is
\* at least delay_min; there are as many increase_delay as throttled attempts;
\* and every attempt is the same callable with the same arguments.
C20_RetryOrder ==
    \A q \in Queues :
        /\ \A i \in DOMAIN ops[q] :
              /\ ops[q][i] = "thread" =>
                    \/ i = 1
                    \/ /\ i > 3
                       /\ ops[q][i - 1] = "sleep"
                       /\ ops[q][i - 2] = "increase_delay"
                       /\ ops[q][i - 3] = "thread"
              /\ ops[q][i] = "increase_delay" => i > 1 /\ ops[q][i - 1] = "thread"
              /\ ops[q][i] = "sleep" => i > 1 /\ ops[q][i - 1] = "increase_delay"
              /\ ops[q][i] = "decrease_delay" => i = Len(ops[q]) /\ pc[q] = "call_done"
        /\ pc[q] = "retry_sleep" =>
              /\ ops[q][Len(ops[q])] = "sleep"
              /\ sleepFor[q] = delay[q]
              /\ sleepFor[q].n >= delay_min.n
        /\ pc[q] \in {"retry_sleep", "call_done"} =>
              Count(q, "increase_delay") = nThrottled[cur[q].fn]
        /\ pc[q] \in {"thread", "retry_sleep", "call_done"} =>
              /\ usedArgs[cur[q].fn] \subseteq {cur[q].args}
              /\ \A i \in PoolWaiting(q) :
                    poolQ[i].fn = cur[q].fn /\ poolQ[i].args = cur[q].args

\* C20 witness: a boto3 call throttled when the delay was already raised is
\* executed again after one increase_delay and a sleep of at least 0.5 s
C20_Witness ==
    /\ pc[1] = "thread"
    /\ ops[1] = <<"thread", "increase_delay", "sleep", "thread">>
    /\ lastOut[1].obj.cls = "ClientError"
    /\ tries[1] = 2
    /\ delay[1].n >= 2 * delay_min.n
    /\ PoolRunning(1) # {}

----------------------------------------------------------------------------
\* a try of the decorated operation that raised an exception in excs
InExcs(o) == o.raised /\ Caught(rt.excs, o.obj.cls)

\* C17: the operation is tried at most retries times; a try is followed by
\* another one only if it raised an exception in excs, with one sleep between
\* two tries; when the wrapper is left, its last try either returned, and the
\* wrapper returns that value, or raised an exception not in excs, and the
\* wrapper raises it, or raised an exception in excs as all the tries before,
\* and then there were exactly retries tries and the wrapper raises the last
\* exception.
C17_Retry ==
    /\ rt.calls <= rt.retries
    /\ \A k \in DOMAIN rt.outs : k < Len(rt.outs) => InExcs(rt.outs[k])
    /\ rt.pc = "try" => rt.sleeps = rt.calls
    /\ rt.pc = "sleep" =>
          /\ rt.sleeps = rt.calls
          /\ InExcs(rt.outs[Len(rt.outs)])
    /\ rt.pc \in {"returned", "raised"} =>
          /\ rt.sleeps = rt.calls - 1
          /\ rt.res = rt.outs[Len(rt.outs)]
          /\ rt.res.obj.try = rt.calls
          /\ rt.res.raised <=> rt.pc = "raised"
          /\ InExcs(rt.res) => rt.calls = rt.retries

----------------------------------------------------------------------------
\* the value of the environment variable a piece is the token of, if it is set
RECURSIVE Lookup(_, _)
Lookup(piece, items) ==
    IF items = <<>> THEN piece
    ELSE IF piece = Token(Head(items).k) THEN Head(items).v
    ELSE Lookup(piece, Tail(items))

\* the pieces with each token of a set variable replaced by its value
Substituted(ps, items) ==
    Concat([i \in DOMAIN ps |-> Lookup(ps[i], items)])

\* C18: populate_with_env returns the string in which every %KEY% token of a
\* set environment variable is replaced by the variable's value and every
\* other token is left in place; with ME=biz and bar unset, 'foo %ME% %bar%'
\* gives 'foo biz %bar%'.
C18_Populate ==
    env.pc \in {"returned", "raised"} =>
        /\ env.pc = "returned"
        /\ env.res = Substituted(env.pieces, env.environ)
        /\ (/\ env.pieces = << <<"f", "o", "o">>, <<" ">>, <<"%", "M", "E", "%">>,
                               <<" ">>, <<"%", "b", "a", "r", "%">> >>
            /\ env.environ = <<EnvME>>)
              => env.res = <<"f", "o", "o", " ", "b", "i", "z", " ",
                             "%", "b", "a", "r", "%">>

----------------------------------------------------------------------------
\* _call of q has handled the error the last attempt of its entry raised
Handled(q) ==
    /\ pc[q] \in {"retry_sleep", "call_done"}
    /\ lastOut[cur[q].fn].raised

\* what _call made of that error, as seen from outside
AsThrottled(q) ==
    /\ pc[q] = "retry_sleep"
    /\ ops[q][Len(ops[q]) - 1] = "increase_delay"
AsCredentialError(q) ==
    /\ pc[q] = "call_done"
    /\ callRes[q].raised
    /\ callRes[q].obj.cls = "InvalidCredentials"
    /\ callRes[q].obj # lastOut[cur[q].fn].obj
AsOtherError(q) ==
    /\ pc[q] = "call_done"
    /\ callRes[q].raised
    /\ callRes[q].obj = lastOut[cur[q].fn].obj

\* a boto2 error whose code is one of the three throttling strings
LegacyThrottleCode(s) ==
    /\ s.raised
    /\ s.obj.cls = "BotoServerError"
    /\ s.obj.code \in {<<"Throttling">>, <<"Rate exceeded">>, <<"reached max retries">>}

\* C21: every error an attempt raised is handled in exactly one of three ways:
\* retried after increase_delay, translated to InvalidCredentials, or raised
\* unchanged; the rules apply in order: a boto2 error with a throttling code is
\* retried whatever its status (403 and 400 included) and never translated;
\* only then a 400 'Bad Request' without code and a 403 are translated; a boto3
\* error is retried iff its code is 'Throttling'; anything else is unchanged.
C21_FirstMatch ==
    \A q \in Queues :
        Handled(q) =>
            LET s == lastOut[cur[q].fn]
                n == (IF AsThrottled(q) THEN 1 ELSE 0)
                       + (IF AsCredentialError(q) THEN 1 ELSE 0)
                       + (IF AsOtherError(q) THEN 1 ELSE 0)
            IN  /\ n = 1
                /\ IF LegacyThrottleCode(s) THEN AsThrottled(q)
                   ELSE IF Blank400(s, {<<>>}) THEN AsCredentialError(q)
                   ELSE IF s.obj.cls = "BotoServerError" /\ s.obj.status = 403
                        THEN AsCredentialError(q)
                   ELSE IF s.obj.cls = "ClientError" /\ s.obj.code = <<"Throttling">>
                        THEN AsThrottled(q)
                   ELSE AsOtherError(q)

\* C21 witness: a boto2 error with status 403 and code 'Throttling' is retried
C21_Witness ==
    /\ Handled(1)
    /\ lastOut[1].obj.status = 403
    /\ lastOut[1].obj.code = <<"Throttling">>
    /\ AsThrottled(1)
    /\ sleepFor[1].n >= delay_min.n

----------------------------------------------------------------------------
\* C22: in every step, the delay of a queue changes only when that queue's
\* dispatcher resumes _call on the resolved future of an attempt, and of no
\* other queue in the same step; a step of a caller (submitting, receiving) or
\* of a pool worker (starting, ending a callable) leaves every delay as it is;
\* and a submission appends one entry to one queue and changes nothing else of
\* the dispatchers and the pool.
C22_SingleWriter ==
    [][/\ \A q \in Queues :
             delay'[q] # delay[q] =>
                 /\ pc[q] = "thread"
                 /\ fut[q].done
                 /\ pc'[q] \in {"retry_sleep", "call_done"}
                 /\ \A q2 \in Queues \ {q} : delay'[q2] = delay[q2]
       /\ (callSt' # callSt \/ received' # received \/ running' # running) =>
             delay' = delay
       /\ \A c \in Calls :
             (callSt[c] = "idle" /\ callSt'[c] = "waiting") =>
                 /\ \E q \in Queues :
                       /\ queue'[q] = Append(queue[q], Entry(c))
                       /\ \A q2 \in Queues \ {q} : queue'[q2] = queue[q2]
                 /\ UNCHANGED <<pc, cur, callRes, delay, sleepFor, fut, poolQ, running,
                                received>>
      ]_vars

\* C22 witness: while the retry of a throttled call executes in a worker with
\* the delay raised, another caller has submitted its call to the same queue
C22_Witness ==
    \E q \in Queues :
        /\ delay[q].n > 0
        /\ \E t \in running : t.q = q /\ tries[t.fn] >= 2
        /\ \E k \in DOMAIN queue[q] : callSt[queue[q][k].fn] = "waiting"

\* the calls submitted to q that the remote API throttled at least once
ThrottledOn(q) == {c \in Range(enq[q]) : nThrottled[c] >= 1}

\* C24: a queue instance none of whose calls was throttled has delay 0, its
\* dispatcher is in neither a retry sleep nor a pace sleep and has slept for
\* no time, whatever throttling the other instances sharing EXECUTOR have met.
C24_OwnBackoff ==
    \A q \in Queues :
        ThrottledOn(q) = {} =>
            /\ delay[q] = delay_init
            /\ pc[q] \in {"get", "thread", "call_done"}
            /\ sleepFor[q].n = 0
            /\ Count(q, "sleep") = 0

\* C24 witness: one instance is in the pace sleep its throttled call left
\* behind while another instance, never throttled, has delivered a result at
\* delay 0 and is back at self._queue.get()
C24_Witness ==
    \E q1, q2 \in Queues :
        /\ q1 # q2
        /\ ThrottledOn(q1) # {}
        /\ delay[q1].n > 0
        /\ pc[q1] = "pace_sleep"
        /\ ThrottledOn(q2) = {}
        /\ Len(dlv[q2]) >= 1
        /\ started[q2] # <<>>
        /\ pc[q2] = "get"
        /\ delay[q2].n = 0

----------------------------------------------------------------------------
\* call() of c has returned or raised
Resumed(c) == callSt[c] \in {"returned", "raised"}

\* C23: with the dispatcher, the pool and the callers' coroutines scheduled
\* fairly and each callable throttled only finitely often, every call that is
\* submitted is eventually executed, has its outcome put on its result queue,
\* and its caller resumes, however many calls are queued before it.
C23_Completes ==
    \A c \in Calls :
        (callSt[c] = "waiting") ~> (tries[c] >= 1 /\ nPut[c] = 1 /\ Resumed(c))

\* C23 witness: every caller has resumed, the calls having been queued behind a
\* call that was throttled and retried
C23_Witness ==
    /\ \A c \in Calls : Resumed(c)
    /\ Len(dlv[1]) = NumCalls
    /\ dlv[1] = enq[1]
    /\ nThrottled[dlv[1][1]] >= 1

----------------------------------------------------------------------------
\* the dispatcher of q is at a position of its loop
InLoop(q) == pc[q] \in {"get", "thread", "retry_sleep", "call_done", "pace_sleep"}

\* _call has ended call c with an error, and the dispatcher has put it
Failed(c) ==
    /\ nPut[c] = 1
    /\ lastOut[c].raised

\* C25: the dispatcher never leaves its loop; an error that ends _call (of
\* boto2, of boto3, an Exception of neither, or an exception that is no
\* Exception) is put on the result queue of the call it belongs to; and a call
\* that waits in the queue when the call before it has failed is dequeued,
\* executed and has its own outcome put.
C25_Survives ==
    /\ []InLoop(1)
    /\ \A c \in Calls :
          (pc[1] = "call_done" /\ callRes[1].raised /\ cur[1].ch = c)
              ~> (nPut[c] = 1 /\ lastOut[c].raised /\ OwnOutcome(c, Delivered(c)))
    /\ \A c \in Calls :
          (callSt[c] = "waiting" /\ tries[c] = 0 /\ \E c1 \in Calls \ {c} : Failed(c1))
              ~> (tries[c] >= 1 /\ nPut[c] = 1 /\ OwnOutcome(c, Delivered(c)))

\* C25 witness: the first call was ended by a KeyboardInterrupt, which its
\* caller received, and the call queued behind it was executed and delivered
C25_Witness ==
    /\ dlv[1] = <<1, 2>>
    /\ lastOut[1].obj.cls = "KeyboardInterrupt"
    /\ received[1].cls = "KeyboardInterrupt"
    /\ tries[2] >= 1
    /\ nPut[2] = 1
    /\ InLoop(1)

----------------------------------------------------------------------------
\* C26: once call() is over, it has raised if and only if the last attempt of
\* its callable raised, and what it returned or raised is the outcome of that
\* attempt: a returned value is returned also when it is an exception object,
\* and a raised error is raised also when it is no Exception.
C26_RaisesIff ==
    \A c \in Calls :
        Resumed(c) =>
            /\ OwnOutcome(c, received[c])
            /\ callSt[c] = "raised" <=> lastOut[c].raised

----------------------------------------------------------------------------
\* C27: after k increase_delay() in a row that started at delay 0, followed by
\* k decrease_delay() in a row, the delay is 0 again, for every k (k = 0: a new
\* queue), under either division of Python.
C27_Recovers ==
    /\ bk.op = "" => bk.delay.n = 0
    /\ IF bk.op = "decrease_delay" /\ bk.prev.from.n = 0 /\ bk.prev.n >= 1
              /\ Len(bk.run) >= bk.prev.n
       THEN /\ bk.run[bk.prev.n].n = 0
            /\ Len(bk.run) = bk.prev.n => bk.delay.n = 0
       ELSE TRUE

\* C27 witness: ten increase_delay() from 0, which reached the cap of 30 at
\* the eighth, then ten decrease_delay(), and the delay is 0
C27_Witness ==
    /\ bk.op = "decrease_delay"
    /\ bk.prev.from.n = 0
    /\ bk.prev.n = 10
    /\ bk.from.n = 30 * 64
    /\ Len(bk.run) = 10
    /\ bk.delay.n = 0

----------------------------------------------------------------------------
\* the dispatcher of q holds an entry it took from its queue
Busy(q) == pc[q] \in {"thread", "retry_sleep", "call_done"}

\* C28: a result queue never holds more than one item; the result queue of the
\* entry a dispatcher holds belongs to no other entry, queued or held; when
\* _call is over that result queue is empty and has never been put on, so the
\* put of the dispatcher can be taken at once; and call() can put its entry on
\* the queue of any ApiCallQueue whatever the number of entries waiting there.
C28_PutNeverBlocks ==
    /\ \A c \in Calls : Len(chan[c]) <= 1
    /\ \A q \in Queues :
          Busy(q) =>
              /\ \A q2 \in Queues :
                    /\ \A i \in DOMAIN queue[q2] : queue[q2][i].ch # cur[q].ch
                    /\ (q2 # q /\ Busy(q2)) => cur[q2].ch # cur[q].ch
              /\ pc[q] = "call_done" =>
                    /\ chan[PutChannel(q)] = <<>>
                    /\ nPut[PutChannel(q)] = 0
                    /\ ENABLED process_queue_put(q)
    /\ \A c \in Calls, q \in Queues : callSt[c] = "idle" => ENABLED call(c, q)

\* C28 witness: _call is over for the second entry of a queue while the result
\* of the first is still in its result queue, its caller not yet resumed
C28_Witness ==
    \E q \in Queues :
        /\ pc[q] = "call_done"
        /\ Len(dlv[q]) = 1
        /\ chan[dlv[q][1]] # <<>>
        /\ callSt[dlv[q][1]] = "waiting"
        /\ PutChannel(q) # dlv[q][1]

====
